---- MODULE Spec2Model ----
(***************************************************************************)
(* BioBeamerLauncher: the version-resolution and environment-provisioning  *)
(* pipeline of src/biobeamer_launcher/launcher.py, as a state machine.      *)
(*                                                                         *)
(* The persistent state is the cache directory (cached descriptor, the one *)
(* repository clone, one environment per version string), the log          *)
(* directory and the remote git repository.  A launcher run is a sequence  *)
(* of steps, one per stage or external call; runs follow one another.      *)
(***************************************************************************)
EXTENDS Integers, Sequences, FiniteSets, TLC

(* ---------------------------------------------------------------- bounds *)
MaxRuns == 2
MaxCommit == 3

(* ------------------------------------------------------------- constants *)
None == "none"
NoDoc == "absent"

Hosts == {"a", "b"}
Branches == {"main", "dev"}
DefaultBranch == "main"
Tags == {"v1"}
CommitNames == {"c3"}
VersionNames == Branches \cup Tags \cup CommitNames

LogDirs == {"logs", "cache"}
ChildCodes == {0, 1, 14, 255}

\* the commit a commit-id version string names (0: none)
CommitOf(v) == IF v = "c3" THEN 3 ELSE 0

(* ----------------------------------------------------------- descriptors *)
\* A descriptor is the sequence of its <host> elements in document order;
\* direct tells whether the element is a direct child of the root.
H(n, v, d) == [name |-> n, version |-> v, direct |-> d]

Malformed == "malformed"
DocIds == {"d1", "d2", "d3", Malformed}

Doc(d) ==
    CASE d = "d1" -> << H("a", "dev", TRUE), H("b", "c3", FALSE) >>
      [] d = "d2" -> << H("b", "c3", FALSE), H("a", "v1", TRUE), H("b", "v1", TRUE) >>
      [] d = "d3" -> << H("a", None, TRUE), H("a", "v1", TRUE), H("c", "dev", FALSE) >>
      [] OTHER -> << >>

VARIABLES
    \* remote git repository
    remoteTop, remoteBranch, remoteTag,
    \* the clone at <cache>/BioBeamer
    cloneExists, originRef, localBranch, localTag, objects, head,
    \* files: cached descriptor, temporary download, local descriptor,
    \* per-version environments, per-host subprocess logs
    cacheXml, tmpXml, localXml, envDir, envEP, envSrc, subLog,
    \* the current run
    pc, debug, cfg, xmlPath, hostEntry, version, exitCode, cause, ops, childCode,
    argv, ran, logger,
    \* history over runs
    runs, lastRepo, prev,
    \* a second launcher process working on the same cache directory
    peer,
    \* the process environment and installation seen by the path resolvers
    sysEnv

gitRemote == << remoteTop, remoteBranch, remoteTag >>
gitLocal == << cloneExists, originRef, localBranch, localTag, objects, head >>
xmlFiles == << cacheXml, tmpXml, localXml >>
envFiles == << envDir, envEP, envSrc >>
runVars == << pc, debug, cfg, xmlPath, hostEntry, version, exitCode, cause, ops, childCode,
             argv, ran, logger >>
histVars == << runs, lastRepo, prev >>
vars == << gitRemote, gitLocal, xmlFiles, envFiles, subLog, runVars, histVars, peer, sysEnv >>

Causes == {"config_unreadable", "fetch_failed", "descriptor_missing",
           "host_not_found", "parse_error", "no_version", "repo", "env",
           "ep_missing", "process_start", "config_key_unset", "tool_not_found",
           "log_dir_unwritable", "cache_unwritable", "args_unprintable"}

\* the last repository provisioning call: its version when it succeeded,
\* the working tree it left, and whether the call before it had succeeded
\* with the same version
NoRepo == [version |-> None, tree |-> 0, again |-> FALSE]

NoCfg == [present |-> FALSE, repoUrl |-> None, xmlLoc |-> None,
          hostName |-> None, logDir |-> None, password |-> ""]

Configs ==
    { [present |-> TRUE, repoUrl |-> r, xmlLoc |-> x, hostName |-> h, logDir |-> l,
       password |-> "pw"] :
        r \in {"repo", None}, x \in {"url", "path", None}, h \in Hosts \cup {None},
        l \in {"logs", None} }
    \cup {NoCfg}

Op(name, ok) == [op |-> name, ok |-> ok]
OpNames == { ops[i].op : i \in 1..Len(ops) }
Did(name) == name \in OpNames
Failed(name) == \E i \in 1..Len(ops) : ops[i] = Op(name, FALSE)

\* the stages whose failure leaves something in the cache or log directory
ProvisioningCauses == {"repo", "env", "ep_missing", "process_start"}

\* the run before this one: its config and the stage it failed at, when it
\* failed at a provisioning stage
NoPrev == [cfg |-> NoCfg, cause |-> None]

\* The second process: where it is, the version its host entry names, the
\* commit its checkout put in the working tree, whether it built an
\* environment, and the commit of the code its entry point executed.
NoPeer == [pc |-> "idle", version |-> None, co |-> 0, built |-> FALSE, ran |-> 0]

\* A per-host subprocess log: whether the file exists, its content (the
\* runs whose output it holds), the last run that opened it (0: none) and
\* the runs that started the entry point on it, in order.
NoLog == [exists |-> FALSE, out |-> << >>, opened |-> 0, starts |-> << >>]

\* No logger is set up: nothing of the run is logged to a file.  msgs are
\* the messages logged so far, shown the configured values their text holds.
NoLogger == [dir |-> None, msgs |-> << >>, shown |-> {}]

\* setup_logger / get_logger, lines 29-34: biobeamer_launcher.log in log_dir
setup_logger(log_dir) == [dir |-> log_dir, msgs |-> << >>, shown |-> {}]

\* the log directory resolved without looking at the configured log_dir
LogDir_CacheOnly(c) == "cache"

\* main, line 527
LogDir(c) == IF c.logDir # None THEN c.logDir ELSE "cache"

(* ------------------------------------------------- locating files and tools *)
\* Python truth of an optional string: None and "" are false.
Truthy(x) == x # None /\ x # ""

\* <project_root>/config/launcher.ini, lines 47-49
DefaultConfigPath == "default.ini"

\* get_xml_config_path consulting the environment variable before the
\* command-line override
get_xml_config_path_EnvFirst(override, env_path) ==
    IF Truthy(env_path) THEN env_path
    ELSE IF Truthy(override) THEN override
    ELSE DefaultConfigPath

\* get_xml_config_path, lines 38-49: override is sys._launcher_config_override
\* (None when the attribute is not set), env_path is BIOBEAMER_LAUNCHER_CONFIG
get_xml_config_path(override, env_path) ==
    IF Truthy(override) THEN override
    ELSE IF Truthy(env_path) THEN env_path
    ELSE DefaultConfigPath

\* load_config, lines 240-242: the override is set only for a truthy --config
ConfigOverride(args_config) == IF Truthy(args_config) THEN args_config ELSE None

\* read_launcher_config, lines 56-58: None (FALSE here) when the file is absent
ConfigReadable(config_path, files) == config_path \in files

\* <project_root>/scripts/uv and <project_root>/scripts/uv.exe, lines 303-308
UvScript == "scripts/uv"
UvScriptWin == "scripts/uv.exe"

\* the result of find_uv_executable when it raises FileNotFoundError
UvNotFound == "FileNotFoundError"

\* find_uv_executable searching PATH before it looks at UV_PATH
find_uv_executable_PathFirst(uv_env, usable, uv_in_path) ==
    IF Truthy(uv_in_path) THEN uv_in_path
    ELSE IF Truthy(uv_env) /\ uv_env \in usable THEN uv_env
    ELSE IF UvScript \in usable THEN UvScript
    ELSE IF UvScriptWin \in usable THEN UvScriptWin
    ELSE UvNotFound

\* find_uv_executable, lines 285-312: uv_env is UV_PATH, usable the paths
\* that are files with execute permission, uv_in_path is shutil.which("uv")
find_uv_executable(uv_env, usable, uv_in_path) ==
    IF Truthy(uv_env) /\ uv_env \in usable THEN uv_env
    ELSE IF Truthy(uv_in_path) THEN uv_in_path
    ELSE IF UvScript \in usable THEN UvScript
    ELSE IF UvScriptWin \in usable THEN UvScriptWin
    ELSE UvNotFound

\* user_cache_dir("biobeamer_launcher", "BioBeamer"), line 123
PlatformCacheDir(system) == << "user_cache_dir", system, "BioBeamer", "biobeamer_launcher" >>

\* lines 126-135: the fallback when platformdirs cannot be imported
FallbackCacheDir(system, local_appdata) ==
    IF system = "Windows"
    THEN IF Truthy(local_appdata)
         THEN << local_appdata, "biobeamer_launcher", "BioBeamerConfig" >>
         ELSE << "~", "biobeamer_launcher", "BioBeamerConfig" >>
    ELSE << "~", ".cache", "biobeamer_launcher", "BioBeamerConfig" >>

\* get_cache_dir asking platformdirs before it looks at the override variable
get_cache_dir_PlatformFirst(env_cache_dir, platformdirs, system, local_appdata) ==
    IF platformdirs THEN PlatformCacheDir(system)
    ELSE IF Truthy(env_cache_dir) THEN << env_cache_dir >>
    ELSE FallbackCacheDir(system, local_appdata)

\* get_cache_dir, lines 115-135: env_cache_dir is BIOBEAMER_LAUNCHER_CACHE_DIR,
\* platformdirs tells whether the import of line 121 succeeds.  A path is
\* the sequence of its components.
get_cache_dir(env_cache_dir, platformdirs, system, local_appdata) ==
    IF Truthy(env_cache_dir) THEN << env_cache_dir >>
    ELSE IF platformdirs THEN PlatformCacheDir(system)
    ELSE FallbackCacheDir(system, local_appdata)

\* The process environment of the main model: nothing has been resolved.
NoSysEnv == [args_config |-> None, env_config |-> None, files |-> {},
             uv_env |-> None, usable |-> {}, uv_in_path |-> None,
             config_path |-> None, config_read |-> FALSE, uv_exe |-> None,
             cache_env |-> None, platformdirs |-> FALSE, system |-> "Linux",
             local_appdata |-> None, cache_asked |-> FALSE, cache_dir |-> << >>]

\* The state before the first run: an empty cache, nothing installed.
InitRun ==
    /\ remoteTop = 2
    /\ remoteBranch = [b \in Branches |-> IF b = DefaultBranch THEN 2 ELSE 1]
    /\ remoteTag = [t \in Tags |-> 1]
    /\ cloneExists = FALSE
    /\ originRef = [b \in Branches |-> 0]
    /\ localBranch = [b \in Branches |-> 0]
    /\ localTag = [t \in Tags |-> 0]
    /\ objects = 0
    /\ head = 0
    /\ cacheXml = NoDoc
    /\ tmpXml = NoDoc
    /\ localXml = NoDoc
    /\ envDir = [v \in VersionNames |-> FALSE]
    /\ envEP = [v \in VersionNames |-> FALSE]
    /\ envSrc = [v \in VersionNames |-> 0]
    /\ subLog = [d \in LogDirs |-> [h \in Hosts |-> NoLog]]
    /\ pc = "idle"
    /\ logger = NoLogger
    /\ debug = FALSE
    /\ cfg = NoCfg
    /\ xmlPath = None
    /\ hostEntry = << >>
    /\ version = None
    /\ exitCode = -1
    /\ cause = None
    /\ ops = << >>
    /\ childCode = -1
    /\ argv = << >>
    /\ ran = 0
    /\ runs = 0
    /\ lastRepo = NoRepo
    /\ prev = NoPrev
    /\ peer = NoPeer

Init == InitRun /\ sysEnv = NoSysEnv

(* ------------------------------------------------------- pure functions *)
\* sys.exit(n): the process exit status keeps the low eight bits.
SysExit(n) == n % 256

Min(S) == CHOOSE x \in S : \A y \in S : x <= y

IsRemote(loc) == loc = "url"

\* fetch_xml_config without the cached fallback of lines 99-101
fetch_xml_config_NoFallback(loc, tryOk, cache, local) ==
    IF IsRemote(loc)
    THEN IF tryOk THEN "tmp" ELSE None
    ELSE IF local # NoDoc THEN "local" ELSE None

\* fetch_xml_config with a cached fallback added to the local branch
fetch_xml_config_LocalFallback(loc, tryOk, cache, local) ==
    IF IsRemote(loc)
    THEN IF tryOk THEN "tmp"
         ELSE IF cache # NoDoc THEN "cache" ELSE None
    ELSE IF local # NoDoc THEN "local"
         ELSE IF cache # NoDoc THEN "cache" ELSE None

\* fetch_xml_config: the path it returns.  tryOk tells whether the whole
\* try block (temporary file, download, cache copy) ran without exception;
\* cache and local are the files as they are when they are tested.
fetch_xml_config(loc, tryOk, cache, local) ==
    IF IsRemote(loc)
    THEN IF tryOk THEN "tmp"
         ELSE IF cache # NoDoc THEN "cache" ELSE None
    ELSE IF local # NoDoc THEN "local" ELSE None

ReadXml(path) ==
    CASE path = "tmp" -> tmpXml
      [] path = "cache" -> cacheXml
      [] path = "local" -> localXml
      [] OTHER -> NoDoc

Attrib(e) == [name |-> e.name, version |-> e.version]

Range(s) == { s[i] : i \in 1..Len(s) }

IsDirect(e) == e.direct

\* root.findall("host"): the direct children, in document order
FindDirect(doc) == SelectSeq(doc, IsDirect)

\* root.findall(".//host"): every host element, in document order
FindAll(doc) == doc

\* One of the two for loops of lines 147-158, from element i on: the loop
\* appends to found_hosts (always when dedup is FALSE, only a name not yet
\* in it when dedup is TRUE) and returns at the first element whose name
\* is host_name.
RECURSIVE ScanHosts(_, _, _, _, _)
ScanHosts(elems, host_name, found, dedup, i) ==
    IF i > Len(elems)
    THEN [ret |-> << >>, found |-> found]
    ELSE LET f == IF dedup /\ elems[i].name \in Range(found)
                  THEN found
                  ELSE Append(found, elems[i].name)
         IN  IF elems[i].name = host_name
             THEN [ret |-> << Attrib(elems[i]) >>, found |-> f]
             ELSE ScanHosts(elems, host_name, f, dedup, i + 1)

\* lines 145-162: the direct children first, then any depth
ParseHosts(doc, host_name) ==
    LET first == ScanHosts(FindDirect(doc), host_name, << >>, FALSE, 1)
    IN  IF first.ret # << >>
        THEN first
        ELSE ScanHosts(FindAll(doc), host_name, first.found, TRUE, 1)

\* the any-depth scan alone, without the direct children first
parse_xml_and_select_host_AnyDepth(d, host_name) ==
    IF d = Malformed \/ d = NoDoc THEN << >>
    ELSE ScanHosts(FindAll(Doc(d)), host_name, << >>, TRUE, 1).ret

\* parse_xml_and_select_host: << >> is None, << r >> the attribute record.
parse_xml_and_select_host(d, host_name) ==
    IF d = Malformed \/ d = NoDoc THEN << >>
    ELSE ParseHosts(Doc(d), host_name).ret

\* the host names listed by the error message of lines 159-161
found_hosts(d, host_name) == ParseHosts(Doc(d), host_name).found

\* extract_biobeamer_version
extract_biobeamer_version(host_entry) == host_entry.version

(* ------------------------------------------------------------ the driver *)
\* A stage failed: the run ends with the given exit code.
Fail(c, code) ==
    /\ pc' = "done"
    /\ exitCode' = SysExit(code)
    /\ cause' = c

\* An uncaught exception ends the interpreter with status 1.
Crash(c) == Fail(c, 1)

\* main, line 526
ConfigCode == 30

\* main: parse_args, load_config, setup_logger, dispatch.
Start ==
    /\ pc = "idle"
    /\ runs < MaxRuns
    /\ runs' = runs + 1
    /\ \E c \in Configs, d \in BOOLEAN, dirOk \in BOOLEAN :
          /\ cfg' = c
          /\ debug' = d
          /\ IF ~c.present
             THEN /\ dirOk
                  /\ Fail("config_unreadable", ConfigCode)
                  /\ logger' = [NoLogger EXCEPT !.msgs = << "could_not_read_config" >>]
             ELSE IF ~dirOk
             THEN /\ Crash("log_dir_unwritable")
                  /\ logger' = NoLogger
             ELSE /\ pc' = "fetch_xml"
                  /\ logger' = setup_logger(LogDir(c))
                  /\ UNCHANGED << exitCode, cause >>
    /\ UNCHANGED << peer, sysEnv, gitRemote, gitLocal, xmlFiles, envFiles, subLog,
                    xmlPath, hostEntry, version, ops, childCode, argv, ran, lastRepo, prev >>

\* The process has exited; the next run starts from the files it left.
Finish ==
    /\ pc = "done"
    /\ pc' = "idle"
    /\ debug' = FALSE
    /\ cfg' = NoCfg
    /\ xmlPath' = None
    /\ hostEntry' = << >>
    /\ version' = None
    /\ exitCode' = -1
    /\ cause' = None
    /\ ops' = << >>
    /\ childCode' = -1
    /\ argv' = << >>
    /\ ran' = 0
    /\ logger' = NoLogger
    /\ tmpXml' = NoDoc
    /\ localXml' = NoDoc
    /\ prev' = IF cause \in ProvisioningCauses
               THEN [cfg |-> cfg, cause |-> cause]
               ELSE NoPrev
    /\ UNCHANGED << peer, sysEnv, gitRemote, gitLocal, cacheXml, envFiles, subLog, runs, lastRepo >>

\* print_launcher_config, lines 73-78: the values the message holds
ConfigShown == {cfg.repoUrl, cfg.xmlLoc, cfg.hostName}

\* logger.<level>(message): the messages are appended to the run's log
Logged(ms) ==
    logger' = [logger EXCEPT !.msgs = @ \o ms,
                             !.shown = IF "config" \in Range(ms)
                                       THEN @ \cup ConfigShown ELSE @]

\* print_launcher_config, called by run_launcher (line 417) and not by
\* print_debug_info
ConfigMsg == IF debug THEN << >> ELSE << "config" >>

\* fetch_and_log_xml_config, lines 249-252; print_debug_info, lines 441-442
FetchMsgs(xml_path) ==
    IF xml_path = None THEN << "could_not_fetch" >> ELSE << "xml_path" >>

\* a fetcher that removes the cached copy when the download fails
CacheWritten_FailureDeletes(outcome, d, old) ==
    CASE outcome = "ok" -> {d}
      [] outcome = "dl_fail" -> {NoDoc}
      [] OTHER -> {old, Malformed}

\* fetch_xml_config, lines 89-96: what BioBeamerConfig.xml in the cache may
\* hold afterwards.  shutil.copy (line 94) runs only after the download;
\* when it fails it has left the file alone or written a part of it.
CacheWritten(outcome, d, old) ==
    CASE outcome = "ok" -> {d}
      [] outcome = "dl_fail" -> {old}
      [] OTHER -> {old, Malformed}

\* run_launcher, line 420; print_debug_info, line 444
FetchCode == IF debug THEN 1 ELSE 20

\* fetch_and_log_xml_config / fetch_xml_config (print_debug_info: lines 440-444)
FetchXml ==
    /\ pc = "fetch_xml"
    /\ UNCHANGED << peer, sysEnv, gitRemote, gitLocal, envFiles, subLog, histVars,
                    debug, cfg, hostEntry, version, childCode, argv, ran >>
    /\ \/ /\ cfg.logDir # None
          /\ Crash("cache_unwritable")
          /\ Logged(ConfigMsg)
          /\ UNCHANGED << xmlFiles, xmlPath, ops >>
       \/ /\ cfg.xmlLoc = None
          /\ Crash("config_key_unset")
          /\ Logged(ConfigMsg)
          /\ UNCHANGED << xmlFiles, xmlPath, ops >>
       \/ /\ IsRemote(cfg.xmlLoc)
          /\ \E d \in DocIds, outcome \in {"ok", "dl_fail", "copy_fail"} :
                /\ tmpXml' = IF outcome = "dl_fail" THEN NoDoc ELSE d
                /\ cacheXml' \in CacheWritten(outcome, d, cacheXml)
                /\ ops' = ops \o
                      CASE outcome = "ok" ->
                             << Op("download", TRUE), Op("cache_copy", TRUE) >>
                        [] outcome = "dl_fail" ->
                             << Op("download", FALSE), Op("cache_fallback", cacheXml' # NoDoc) >>
                        [] OTHER ->
                             << Op("download", TRUE), Op("cache_copy", FALSE),
                                Op("cache_fallback", cacheXml' # NoDoc) >>
                /\ xmlPath' = fetch_xml_config(cfg.xmlLoc, outcome = "ok", cacheXml', localXml)
          /\ UNCHANGED localXml
          /\ Logged(ConfigMsg \o FetchMsgs(xmlPath'))
          /\ IF xmlPath' = None
             THEN Fail("fetch_failed", FetchCode)
             ELSE /\ pc' = "select_host"
                  /\ UNCHANGED << exitCode, cause >>
       \/ /\ cfg.xmlLoc = "path"
          /\ \E d \in DocIds \cup {NoDoc} :
                /\ localXml' = d
                /\ ops' = ops \o << Op("stat_local", d # NoDoc) >>
                /\ xmlPath' = fetch_xml_config(cfg.xmlLoc, FALSE, cacheXml, d)
          /\ UNCHANGED << cacheXml, tmpXml >>
          /\ Logged(ConfigMsg \o FetchMsgs(xmlPath'))
          /\ IF xmlPath' = None
             THEN Fail("descriptor_missing", FetchCode)
             ELSE /\ pc' = "select_host"
                  /\ UNCHANGED << exitCode, cause >>

\* run_launcher returning the descriptor stage's code for a missing host
HostCode_AsFetch == IF debug THEN 2 ELSE 20

\* run_launcher, line 423; print_debug_info, line 449
HostCode == IF debug THEN 2 ELSE 23

\* parse_xml_and_select_host, lines 159-164, then select_host_entry,
\* lines 258-261 (print_debug_info: 446-447)
HostMsgs(d, host_entry) ==
    IF host_entry # << >> THEN << "selected_host" >>
    ELSE << IF d = Malformed THEN "error_parsing_xml" ELSE "host_not_in_xml",
            "no_host_entry" >>

\* select_host_entry / parse_xml_and_select_host (print_debug_info: 445-449)
SelectHost ==
    /\ pc = "select_host"
    /\ hostEntry' = parse_xml_and_select_host(ReadXml(xmlPath), cfg.hostName)
    /\ ops' = ops \o << Op("select_host", hostEntry' # << >>) >>
    /\ Logged(HostMsgs(ReadXml(xmlPath), hostEntry'))
    /\ IF hostEntry' = << >>
       THEN Fail(IF ReadXml(xmlPath) = Malformed THEN "parse_error" ELSE "host_not_found",
                 HostCode)
       ELSE /\ pc' = "extract_version"
            /\ UNCHANGED << exitCode, cause >>
    /\ UNCHANGED << peer, sysEnv, gitRemote, gitLocal, xmlFiles, envFiles, subLog, histVars,
                    debug, cfg, xmlPath, version, childCode, argv, ran >>

\* run_launcher, line 426; print_debug_info, line 454
VersionCode == IF debug THEN 3 ELSE 24

\* extract_and_log_version / extract_biobeamer_version (print_debug_info: 450-454)
ExtractVersion ==
    /\ pc = "extract_version"
    /\ UNCHANGED logger
    /\ version' = extract_biobeamer_version(hostEntry[1])
    /\ ops' = ops \o << Op("extract_version", version' # None) >>
    /\ IF version' = None
       THEN Fail("no_version", VersionCode)
       ELSE /\ pc' = "prepare_repo"
            /\ UNCHANGED << exitCode, cause >>
    /\ UNCHANGED << peer, sysEnv, gitRemote, gitLocal, xmlFiles, envFiles, subLog, histVars,
                    debug, cfg, xmlPath, hostEntry, childCode, argv, ran >>

(* ------------------------------------------------------------------- git *)
\* The commit a version string denotes in the remote repository (0: none).
RemoteDenotes(v) ==
    IF v \in Branches THEN remoteBranch[v]
    ELSE IF v \in Tags THEN remoteTag[v]
    ELSE IF v \in CommitNames /\ CommitOf(v) <= remoteTop THEN CommitOf(v)
    ELSE 0

\* git fetch --all: remote-tracking branches follow the remote; a tag is
\* added when the clone does not have it and is never moved.
FetchedTags == [t \in Tags |-> IF localTag[t] = 0 THEN remoteTag[t] ELSE localTag[t]]

\* git checkout <version>: a local branch first, then a tag or a commit
\* (detached), then a new local branch from the remote-tracking branch.
CheckoutResolve(v) ==
    IF v \in Branches /\ localBranch[v] # 0
    THEN [ok |-> TRUE, commit |-> localBranch[v], create |-> FALSE]
    ELSE IF v \in Tags /\ localTag[v] # 0
    THEN [ok |-> TRUE, commit |-> localTag[v], create |-> FALSE]
    ELSE IF v \in CommitNames /\ CommitOf(v) # 0 /\ CommitOf(v) <= objects
    THEN [ok |-> TRUE, commit |-> CommitOf(v), create |-> FALSE]
    ELSE IF v \in Branches /\ originRef[v] # 0
    THEN [ok |-> TRUE, commit |-> originRef[v], create |-> TRUE]
    ELSE [ok |-> FALSE, commit |-> 0, create |-> FALSE]

IsGitOp(o) == o.op \in {"clone", "fetch", "checkout"}
GitOps == LET g == SelectSeq(ops, IsGitOp) IN [i \in 1..Len(g) |-> g[i].op]
GitOpsOf(s) == LET g == SelectSeq(s, IsGitOp) IN [i \in 1..Len(g) |-> g[i].op]

\* run_launcher, line 429; print_debug_info, line 461
RepoCode == IF debug THEN 4 ELSE 25

\* the existence test of line 188 looking at a path that never exists
RepoPathExists_Never == FALSE

\* os.path.exists(repo_path), line 188
RepoPathExists == cloneExists

RepoCall(ok, tree) ==
    [version |-> IF ok THEN version ELSE None, tree |-> tree,
     again |-> ok /\ lastRepo.version = version]

\* lines 211-217 without the return None of line 215
CheckoutReturn_Always(ok) == "repo_path"

\* fetch_or_update_biobeamer_repo, lines 211-217: what the call returns
\* after git checkout
CheckoutReturn(ok) == IF ok THEN "repo_path" ELSE None

\* fetch_or_update_biobeamer_repo going on to the checkout after a failed
\* git fetch
FetchReturn_Ignored(ok) == "checkout"

\* fetch_or_update_biobeamer_repo, lines 200-205: a failed git fetch returns
\* None, a successful one goes on to the checkout
FetchReturn(ok) == IF ok THEN "checkout" ELSE None

\* prepare_biobeamer_repo / fetch_or_update_biobeamer_repo, lines 184-205
PrepareRepo ==
    /\ pc = "prepare_repo"
    /\ UNCHANGED logger
    /\ UNCHANGED << peer, sysEnv, gitRemote, xmlFiles, envFiles, subLog, runs, prev,
                    debug, cfg, xmlPath, hostEntry, version, childCode, argv, ran >>
    /\ \/ /\ (cfg.repoUrl = None \/ version = None)
          /\ Fail("repo", RepoCode)
          /\ lastRepo' = RepoCall(FALSE, head)
          /\ UNCHANGED << gitLocal, ops >>
       \/ /\ cfg.repoUrl # None /\ version # None
          /\ ~RepoPathExists
          /\ \E ok \in BOOLEAN :
                /\ ops' = ops \o << Op("clone", ok) >>
                /\ IF ok
                   THEN /\ cloneExists' = TRUE
                        /\ originRef' = remoteBranch
                        /\ localTag' = remoteTag
                        /\ localBranch' = [b \in Branches |->
                              IF b = DefaultBranch THEN remoteBranch[b] ELSE 0]
                        /\ objects' = remoteTop
                        /\ head' = remoteBranch[DefaultBranch]
                        /\ pc' = "checkout"
                        /\ UNCHANGED << exitCode, cause, lastRepo >>
                   ELSE /\ Fail("repo", RepoCode)
                        /\ lastRepo' = RepoCall(FALSE, head)
                        /\ UNCHANGED gitLocal
       \/ /\ cfg.repoUrl # None /\ version # None
          /\ RepoPathExists
          /\ \E ok \in BOOLEAN :
                /\ ops' = ops \o << Op("fetch", ok) >>
                /\ IF ok
                   THEN /\ originRef' = remoteBranch
                        /\ localTag' = FetchedTags
                        /\ objects' = remoteTop
                        /\ UNCHANGED << cloneExists, localBranch, head >>
                   ELSE UNCHANGED gitLocal
                /\ IF FetchReturn(ok) # None
                   THEN /\ pc' = "checkout"
                        /\ UNCHANGED << exitCode, cause, lastRepo >>
                   ELSE /\ Fail("repo", RepoCode)
                        /\ lastRepo' = RepoCall(FALSE, head)

\* fetch_or_update_biobeamer_repo, lines 206-217: git checkout <version>,
\* and prepare_biobeamer_repo's test of the result
Checkout ==
    /\ pc = "checkout"
    /\ UNCHANGED logger
    /\ UNCHANGED << peer, sysEnv, gitRemote, xmlFiles, envFiles, subLog, runs, prev,
                    debug, cfg, xmlPath, hostEntry, version, childCode, argv, ran,
                    cloneExists, originRef, localTag, objects >>
    /\ \E toolOk \in BOOLEAN :
          LET r == CheckoutResolve(version)
              ok == toolOk /\ r.ok
          IN  /\ ops' = ops \o << Op("checkout", ok) >>
              /\ head' = IF ok THEN r.commit ELSE head
              /\ localBranch' = IF ok /\ r.create
                                THEN [localBranch EXCEPT ![version] = r.commit]
                                ELSE localBranch
              /\ lastRepo' = RepoCall(ok, head')
              /\ IF CheckoutReturn(ok) # None
                 THEN /\ pc' = "setup_venv"
                      /\ UNCHANGED << exitCode, cause >>
                 ELSE Fail("repo", RepoCode)

(* ----------------------------------------------------------- environment *)
\* run_biobeamer_process, line 374; print_debug_info, line 467
EnvCode == IF debug THEN 5 ELSE 13

\* the existence tests of lines 332 and 379 always answering yes
EntryPointExists_Always(v) == TRUE

\* os.path.exists(venv_biobeamer), line 332; os.path.exists(biobeamer_exe),
\* line 379
EntryPointExists(v) == envEP[v]

\* dict.get(key, default): the default is used only when the key is not in
\* the dict, and the dict of lines 61-67 holds every key
DictGet(value, default) == value

\* print_debug_info, lines 477-482: the arguments it prints
DebugArgs(c, xml) ==
    << "--xml", xml, "--hostname", c.hostName,
       "--log_dir", DictGet(c.logDir, "cache"), "--password", c.password >>

\* line 496: '" " in arg' raises TypeError when arg is None
Printable(args) == \A i \in 1..Len(args) : args[i] # None

\* the test of line 332 looking at the environment directory instead of
\* the entry point in it
VenvBiobeamerExists_DirOnly(v) == envDir[v]

\* os.path.exists(venv_biobeamer), line 332
VenvBiobeamerExists(v) == EntryPointExists(v)

\* main dispatching to run_launcher whether or not --debug was given
AfterVenv_IgnoresDebug ==
    /\ pc' = "check_ep"
    /\ UNCHANGED << exitCode, cause, argv >>

\* What follows a successful setup_biobeamer_venv: run_biobeamer_process
\* goes on to the entry point, print_debug_info prints and returns 0.
AfterVenv ==
    IF debug
    THEN IF Printable(DebugArgs(cfg, xmlPath))
         THEN /\ pc' = "done"
              /\ exitCode' = SysExit(0)
              /\ argv' = DebugArgs(cfg, xmlPath)
              /\ UNCHANGED cause
         ELSE /\ Crash("args_unprintable")
              /\ UNCHANGED argv
    ELSE /\ pc' = "check_ep"
         /\ UNCHANGED << exitCode, cause, argv >>

\* setup_biobeamer_venv going on to the install after a failed uv venv
VenvCreateReturn_Ignored(ok) == "pip_install"

\* setup_biobeamer_venv, lines 337-343: a failed uv venv returns None, a
\* successful one goes on to the install
VenvCreateReturn(ok) == IF ok THEN "pip_install" ELSE None

\* setup_biobeamer_venv, lines 321-343: find_uv_executable, the existence
\* test, uv venv
SetupVenv ==
    /\ pc = "setup_venv"
    /\ UNCHANGED logger
    /\ UNCHANGED << peer, sysEnv, gitRemote, gitLocal, xmlFiles, subLog, histVars,
                    debug, cfg, xmlPath, hostEntry, version, childCode, ran,
                    envEP, envSrc >>
    /\ \E uvFound \in BOOLEAN :
          IF ~uvFound
          THEN /\ ops' = ops \o << Op("find_uv", FALSE) >>
               /\ Crash("tool_not_found")
               /\ UNCHANGED << envDir, argv >>
          ELSE IF VenvBiobeamerExists(version)
          THEN /\ ops' = ops \o << Op("find_uv", TRUE) >>
               /\ AfterVenv
               /\ UNCHANGED envDir
          ELSE \E ok \in BOOLEAN :
                /\ ops' = ops \o << Op("find_uv", TRUE), Op("venv_create", ok) >>
                /\ envDir' = IF ok THEN [envDir EXCEPT ![version] = TRUE] ELSE envDir
                /\ UNCHANGED argv
                /\ IF VenvCreateReturn(ok) # None
                   THEN /\ pc' = "pip_install"
                        /\ UNCHANGED << exitCode, cause >>
                   ELSE Fail("env", EnvCode)

\* an install from a copy of the commit own that the run's checkout chose
InstallSource_Requested(own) == own

\* uv pip install -e repo_path, line 347: the install reads the working
\* tree of the one clone as it is when the install runs
InstallSource(own) == head

\* setup_biobeamer_venv, lines 344-364: uv pip install -e <repo_path>.  A
\* successful install may leave no entry point behind.
PipInstall ==
    /\ pc = "pip_install"
    /\ UNCHANGED logger
    /\ UNCHANGED << peer, sysEnv, gitRemote, gitLocal, xmlFiles, subLog, histVars,
                    debug, cfg, xmlPath, hostEntry, version, childCode, ran, envDir >>
    /\ \E ok \in BOOLEAN, ep \in BOOLEAN :
          /\ ops' = ops \o << Op("pip_install", ok) >>
          /\ IF ok
             THEN /\ envEP' = [envEP EXCEPT ![version] = ep]
                  /\ envSrc' = [envSrc EXCEPT ![version] = InstallSource(lastRepo.tree)]
                  /\ AfterVenv
             ELSE /\ ep = FALSE
                  /\ Fail("env", EnvCode)
                  /\ UNCHANGED << envEP, envSrc, argv >>

(* -------------------------------------------------------- process runner *)
\* run_biobeamer_process, line 381
EntryPointCode == 14

\* run_biobeamer_process, line 413
ProcessStartCode == 11

\* run_biobeamer_process, lines 375-381
CheckEntryPoint ==
    /\ pc = "check_ep"
    /\ UNCHANGED logger
    /\ IF ~EntryPointExists(version)
       THEN Fail("ep_missing", EntryPointCode)
       ELSE /\ pc' = "run_child"
            /\ UNCHANGED << exitCode, cause >>
    /\ UNCHANGED << peer, sysEnv, gitRemote, gitLocal, xmlFiles, envFiles, subLog, histVars,
                    debug, cfg, xmlPath, hostEntry, version, childCode, argv, ran, ops >>
\* lines 403-410 returning a fixed failure code for a failed child
ChildReturn_Flag(rc) == IF rc # 0 THEN 1 ELSE 0

\* run_biobeamer_process, lines 403-410
ChildReturn(rc) == IF rc # 0 THEN rc ELSE 0

\* the per-host log file placed in the cache directory whatever log_dir is
SubprocessLogDir_Cache(log_dir) == "cache"

\* run_biobeamer_process, lines 382-384: the per-host log file is in log_dir
SubprocessLogDir(log_dir) == log_dir

\* open(biobeamer_log_file, "w") keeping what earlier runs wrote
OpenLog_Append(f) == [f EXCEPT !.exists = TRUE, !.opened = runs]

\* open(biobeamer_log_file, "w"), line 398: the file is created or emptied
OpenLog(f) == [f EXCEPT !.exists = TRUE, !.out = << >>, !.opened = runs]

\* subprocess.run(cmd, stdout=logf, stderr=subprocess.STDOUT), lines 399-401:
\* the child's standard output and error go to the open file
ChildWrites(f) == [f EXCEPT !.out = Append(f.out, runs), !.starts = Append(f.starts, runs)]

\* an entry point executing a copy of the commit own that the run's checkout
\* chose
ExecutedCode_Requested(own) == own

\* The install is editable (-e, line 347): the entry point imports the
\* package from the working tree of the clone as it is while the child runs.
ExecutedCode(own) == head

\* run_biobeamer_process, lines 385-395: the arguments after the executable
ChildArgs(c, xml, log_dir) ==
    << "--xml", xml, "--hostname", c.hostName,
       "--log_dir", log_dir, "--password", c.password >>

\* logger.info(f"Running BioBeamer: {' '.join(cmd)}"), line 396: the
\* message holds every argument of the command
CmdLogged(cmd) == Range(cmd)

\* run_biobeamer_process starting the entry point again after a failed start
StartFailed_Retry == "run_child"

\* run_biobeamer_process, lines 411-413: an exception of the start is logged
\* and the function returns; nothing is tried again
StartFailed == "done"

\* run_biobeamer_process, lines 382-413: build the command, open the log,
\* run the child
RunChild ==
    /\ pc = "run_child"
    /\ argv' = ChildArgs(cfg, xmlPath, LogDir(cfg))
    /\ logger' = [logger EXCEPT !.msgs = Append(@, "running"),
                                !.shown = @ \cup CmdLogged(argv')]
    /\ UNCHANGED << peer, sysEnv, gitRemote, gitLocal, xmlFiles, envFiles, histVars,
                    debug, cfg, xmlPath, hostEntry, version >>
    /\ \E outcome \in {"open_fail", "start_fail", "exit"} :
          \/ /\ outcome = "open_fail"
             /\ ops' = ops \o << Op("open_log", FALSE) >>
             /\ Fail("process_start", ProcessStartCode)
             /\ UNCHANGED << subLog, childCode, ran >>
          \/ /\ outcome = "start_fail"
             /\ ops' = ops \o << Op("open_log", TRUE), Op("start", FALSE) >>
             /\ subLog' = [subLog EXCEPT ![SubprocessLogDir(LogDir(cfg))][cfg.hostName] = OpenLog(@)]
             /\ IF StartFailed = "done"
                THEN Fail("process_start", ProcessStartCode)
                ELSE /\ pc' = StartFailed
                     /\ UNCHANGED << exitCode, cause >>
             /\ UNCHANGED << childCode, ran >>
          \/ /\ outcome = "exit"
             /\ \E rc \in ChildCodes :
                   /\ childCode' = rc
                   /\ exitCode' = SysExit(ChildReturn(rc))
             /\ ops' = ops \o << Op("open_log", TRUE), Op("start", TRUE) >>
             /\ subLog' = [subLog EXCEPT ![SubprocessLogDir(LogDir(cfg))][cfg.hostName] =
                              ChildWrites(OpenLog(@))]
             /\ ran' = ExecutedCode(lastRepo.tree)
             /\ pc' = "done"
             /\ UNCHANGED cause

(* ------------------------------------------------------- the environment *)
\* Between runs a branch of the remote repository receives a new commit.
RemoteAdvance ==
    /\ pc = "idle"
    /\ cloneExists
    /\ runs < MaxRuns
    /\ remoteTop < MaxCommit
    /\ \E b \in Branches :
          /\ remoteTop' = remoteTop + 1
          /\ remoteBranch' = [remoteBranch EXCEPT ![b] = remoteTop + 1]
    /\ UNCHANGED << peer, sysEnv, remoteTag, gitLocal, xmlFiles, envFiles, subLog, runVars, histVars >>

\* Between runs a tag of the remote repository is moved to another commit.
RemoteRetag ==
    /\ pc = "idle"
    /\ cloneExists
    /\ runs < MaxRuns
    /\ \E t \in Tags, c \in 1..remoteTop :
          /\ c # remoteTag[t]
          /\ remoteTag' = [remoteTag EXCEPT ![t] = c]
    /\ UNCHANGED << peer, sysEnv, remoteTop, remoteBranch, gitLocal, xmlFiles, envFiles, subLog,
                    runVars, histVars >>

Next ==
    \/ Start
    \/ Finish
    \/ FetchXml
    \/ SelectHost
    \/ ExtractVersion
    \/ PrepareRepo
    \/ Checkout
    \/ SetupVenv
    \/ PipInstall
    \/ CheckEntryPoint
    \/ RunChild
    \/ RemoteAdvance
    \/ RemoteRetag

Spec == Init /\ [][Next]_vars

(* ------------------------------------------- a second launcher process *)
\* The second process is a normal run of the same program whose config and
\* descriptor stages have succeeded with some version; it writes its
\* subprocess log under a host name of its own.  Its steps are those of
\* PrepareRepo .. RunChild on the shared cache directory.
mainVars == << gitRemote, xmlFiles, subLog, runVars, histVars, sysEnv >>

PeerStart ==
    /\ peer = NoPeer
    /\ \E v \in VersionNames :
          peer' = [peer EXCEPT !.pc = "prepare_repo", !.version = v]
    /\ UNCHANGED << mainVars, gitLocal, envFiles >>

\* fetch_or_update_biobeamer_repo, lines 187-205
PeerPrepareRepo ==
    /\ peer.pc = "prepare_repo"
    /\ UNCHANGED << mainVars, envFiles >>
    /\ \E ok \in BOOLEAN :
          IF ~ok
          THEN /\ peer' = [peer EXCEPT !.pc = "done"]
               /\ UNCHANGED gitLocal
          ELSE /\ peer' = [peer EXCEPT !.pc = "checkout"]
               /\ originRef' = remoteBranch
               /\ objects' = remoteTop
               /\ IF RepoPathExists
                  THEN /\ localTag' = FetchedTags
                       /\ UNCHANGED << cloneExists, localBranch, head >>
                  ELSE /\ cloneExists' = TRUE
                       /\ localTag' = remoteTag
                       /\ localBranch' = [b \in Branches |->
                             IF b = DefaultBranch THEN remoteBranch[b] ELSE 0]
                       /\ head' = remoteBranch[DefaultBranch]

\* fetch_or_update_biobeamer_repo, lines 206-217
PeerCheckout ==
    /\ peer.pc = "checkout"
    /\ UNCHANGED << mainVars, envFiles, cloneExists, originRef, localTag, objects >>
    /\ \E toolOk \in BOOLEAN :
          LET r == CheckoutResolve(peer.version)
              ok == toolOk /\ r.ok
          IN  /\ head' = IF ok THEN r.commit ELSE head
              /\ localBranch' = IF ok /\ r.create
                                THEN [localBranch EXCEPT ![peer.version] = r.commit]
                                ELSE localBranch
              /\ peer' = IF CheckoutReturn(ok) # None
                         THEN [peer EXCEPT !.pc = "setup_venv", !.co = r.commit]
                         ELSE [peer EXCEPT !.pc = "done"]

\* setup_biobeamer_venv, lines 321-343
PeerSetupVenv ==
    /\ peer.pc = "setup_venv"
    /\ UNCHANGED << mainVars, gitLocal, envEP, envSrc >>
    /\ \E uvFound \in BOOLEAN, ok \in BOOLEAN :
          IF ~uvFound
          THEN /\ ok
               /\ peer' = [peer EXCEPT !.pc = "done"]
               /\ UNCHANGED envDir
          ELSE IF VenvBiobeamerExists(peer.version)
          THEN /\ ok
               /\ peer' = [peer EXCEPT !.pc = "check_ep"]
               /\ UNCHANGED envDir
          ELSE IF ok
          THEN /\ envDir' = [envDir EXCEPT ![peer.version] = TRUE]
               /\ peer' = [peer EXCEPT !.pc = "pip_install", !.built = TRUE]
          ELSE /\ peer' = [peer EXCEPT !.pc = "done", !.built = TRUE]
               /\ UNCHANGED envDir

\* setup_biobeamer_venv, lines 344-364
PeerPipInstall ==
    /\ peer.pc = "pip_install"
    /\ UNCHANGED << mainVars, gitLocal, envDir >>
    /\ \E ok \in BOOLEAN, ep \in BOOLEAN :
          IF ok
          THEN /\ envEP' = [envEP EXCEPT ![peer.version] = ep]
               /\ envSrc' = [envSrc EXCEPT ![peer.version] = InstallSource(peer.co)]
               /\ peer' = [peer EXCEPT !.pc = "check_ep"]
          ELSE /\ ep = FALSE
               /\ peer' = [peer EXCEPT !.pc = "done"]
               /\ UNCHANGED << envEP, envSrc >>

\* run_biobeamer_process, lines 375-381
PeerCheckEntryPoint ==
    /\ peer.pc = "check_ep"
    /\ peer' = [peer EXCEPT !.pc = IF EntryPointExists(peer.version)
                                   THEN "run_child" ELSE "done"]
    /\ UNCHANGED << mainVars, gitLocal, envFiles >>

\* run_biobeamer_process, lines 382-413
PeerRunChild ==
    /\ peer.pc = "run_child"
    /\ \E started \in BOOLEAN :
          peer' = [peer EXCEPT !.pc = "done",
                               !.ran = IF started THEN ExecutedCode(peer.co) ELSE 0]
    /\ UNCHANGED << mainVars, gitLocal, envFiles >>

\* The cache directory after earlier sequential runs: the clone is there
\* with both branches checked out once and the tag fetched, and the
\* environments of the three versions are either all built or all absent.
BuiltVersions == Branches \cup Tags

InitConc ==
    /\ remoteTop = 2
    /\ remoteBranch = [b \in Branches |-> IF b = DefaultBranch THEN 2 ELSE 1]
    /\ remoteTag = [t \in Tags |-> 1]
    /\ cloneExists = TRUE
    /\ originRef = remoteBranch
    /\ localBranch = remoteBranch
    /\ localTag = remoteTag
    /\ objects = remoteTop
    /\ head \in {1, 2}
    /\ cacheXml = NoDoc
    /\ tmpXml = NoDoc
    /\ localXml = NoDoc
    /\ \E built \in BOOLEAN :
          /\ envDir = [v \in VersionNames |-> built /\ v \in BuiltVersions]
          /\ envEP = envDir
          /\ envSrc = [v \in VersionNames |->
                          IF built /\ v \in BuiltVersions THEN RemoteDenotes(v) ELSE 0]
    /\ subLog = [d \in LogDirs |-> [h \in Hosts |-> NoLog]]
    /\ pc = "idle"
    /\ logger = NoLogger
    /\ debug = FALSE
    /\ cfg = NoCfg
    /\ xmlPath = None
    /\ hostEntry = << >>
    /\ version = None
    /\ exitCode = -1
    /\ cause = None
    /\ ops = << >>
    /\ childCode = -1
    /\ argv = << >>
    /\ ran = 0
    /\ runs = 0
    /\ lastRepo = NoRepo
    /\ prev = NoPrev
    /\ peer = NoPeer
    /\ sysEnv = NoSysEnv

\* The first process: one normal run with a complete config and a local
\* descriptor.
ConcStart ==
    /\ Start
    /\ runs = 0
    /\ ~debug'
    /\ cfg'.present /\ cfg'.repoUrl # None /\ cfg'.hostName # None
    /\ cfg'.xmlLoc = "path"

NextConc ==
    \/ ConcStart
    \/ FetchXml
    \/ SelectHost
    \/ ExtractVersion
    \/ PrepareRepo
    \/ Checkout
    \/ SetupVenv
    \/ PipInstall
    \/ CheckEntryPoint
    \/ RunChild
    \/ Finish
    \/ PeerStart
    \/ PeerPrepareRepo
    \/ PeerCheckout
    \/ PeerSetupVenv
    \/ PeerPipInstall
    \/ PeerCheckEntryPoint
    \/ PeerRunChild

SpecConc == InitConc /\ [][NextConc]_vars

(* ------------------------------------------------------- one run to its end *)
\* The steps of a run that has started: each one is a blocking call of
\* run_launcher / print_debug_info that returns.
RunStep ==
    \/ FetchXml
    \/ SelectHost
    \/ ExtractVersion
    \/ PrepareRepo
    \/ Checkout
    \/ SetupVenv
    \/ PipInstall
    \/ CheckEntryPoint
    \/ RunChild

\* One launcher run on an empty cache or on a provisioned one.
InitLive == Init \/ InitConc

\* main, lines 518-534: the one run of the process
LiveStart == Start /\ runs = 0

NextLive ==
    \/ LiveStart
    \/ RunStep
    \/ Finish

\* The launcher is one synchronous thread: when every external call
\* returns, a started run takes its next step.
SpecLive == InitLive /\ [][NextLive]_vars /\ WF_vars(RunStep)

(* ------------------------------------------ resolving the config and the tool *)
\* --config values, BIOBEAMER_LAUNCHER_CONFIG values and the config files
\* that may exist
ConfigArgs == {None, "", "cli.ini"}
ConfigEnvs == {None, "", "env.ini"}
ConfigPaths == {"cli.ini", "env.ini", DefaultConfigPath}

\* UV_PATH values, the files that may be executable, and shutil.which("uv")
UvEnvs == {None, "", "uvp"}
UvPaths == {"uvp", UvScript, UvScriptWin}
WhichResults == {None, "/usr/bin/uv"}

\* everything but the process environment
runWorld == << gitRemote, gitLocal, xmlFiles, envFiles, subLog, runVars, histVars, peer >>

\* A launcher process in any environment, before it has resolved anything.
InitResolve ==
    /\ InitRun
    /\ \E a \in ConfigArgs, e \in ConfigEnvs, fs \in SUBSET ConfigPaths,
          u \in UvEnvs, us \in SUBSET UvPaths, w \in WhichResults :
          sysEnv = [NoSysEnv EXCEPT !.args_config = a, !.env_config = e, !.files = fs,
                                    !.uv_env = u, !.usable = us, !.uv_in_path = w]

\* load_config, lines 238-244
LoadConfig ==
    /\ sysEnv.config_path = None
    /\ LET config_path == get_xml_config_path(ConfigOverride(sysEnv.args_config),
                                              sysEnv.env_config)
       IN  sysEnv' = [sysEnv EXCEPT !.config_path = config_path,
                                    !.config_read = ConfigReadable(config_path, sysEnv.files)]
    /\ UNCHANGED runWorld

\* uv_exe = find_uv_executable(), line 331
FindUv ==
    /\ sysEnv.uv_exe = None
    /\ sysEnv' = [sysEnv EXCEPT !.uv_exe =
                      find_uv_executable(sysEnv.uv_env, sysEnv.usable, sysEnv.uv_in_path)]
    /\ UNCHANGED runWorld

NextResolve ==
    \/ LoadConfig
    \/ FindUv

SpecResolve == InitResolve /\ [][NextResolve]_vars

(* ------------------------------------------------ resolving the cache directory *)
\* BIOBEAMER_LAUNCHER_CACHE_DIR values, platform.system() results and
\* LOCALAPPDATA values
CacheEnvs == {None, "", "/data/cache"}
Systems == {"Linux", "Windows", "Darwin"}
LocalAppData == {None, "", "C:/AppData"}

\* A launcher process in any environment, before it asked for the cache
\* directory.
InitCacheDir ==
    /\ InitRun
    /\ \E e \in CacheEnvs, pd \in BOOLEAN, sy \in Systems, la \in LocalAppData :
          sysEnv = [NoSysEnv EXCEPT !.cache_env = e, !.platformdirs = pd,
                                    !.system = sy, !.local_appdata = la]

\* cache_dir = get_cache_dir(), lines 84, 274, 321, 469
GetCacheDir ==
    /\ ~sysEnv.cache_asked
    /\ sysEnv' = [sysEnv EXCEPT !.cache_asked = TRUE,
                                !.cache_dir =
                      get_cache_dir(sysEnv.cache_env, sysEnv.platformdirs,
                                    sysEnv.system, sysEnv.local_appdata)]
    /\ UNCHANGED runWorld

NextCacheDir == GetCacheDir

SpecCacheDir == InitCacheDir /\ [][NextCacheDir]_vars

(* ================================================================ claims *)
StageOf(name) ==
    CASE name \in {"download", "cache_copy", "cache_fallback", "stat_local"} -> 1
      [] name = "select_host" -> 2
      [] name = "extract_version" -> 3
      [] name \in {"clone", "fetch", "checkout"} -> 4
      [] name \in {"find_uv", "venv_create", "pip_install"} -> 5
      [] OTHER -> 6

\* An operation whose failure makes its stage fail (a failed download or
\* cache copy is followed by the cached fallback, which decides the stage).
StageFailing(o) == ~o.ok /\ o.op \notin {"download", "cache_copy"}

\* C1: in a normal run the operations are performed in the order descriptor
\* fetch, host resolution, version extraction, repository provisioning,
\* environment provisioning, entry-point execution, every stage after the
\* one before it, and once an operation has made its stage fail no
\* operation of a later stage is performed in that run.
C1_StageOrder ==
    ~debug =>
       /\ \A i, j \in 1..Len(ops) :
             i < j => StageOf(ops[i].op) <= StageOf(ops[j].op)
       /\ \A i \in 1..Len(ops) :
             StageOf(ops[i].op) > 1 =>
                \E j \in 1..(i - 1) : StageOf(ops[j].op) = StageOf(ops[i].op) - 1
       /\ \A i, j \in 1..Len(ops) :
             (i < j /\ StageFailing(ops[i])) => StageOf(ops[j].op) <= StageOf(ops[i].op)

C1_Witness ==
    /\ pc = "done"
    /\ ~debug
    /\ Failed("checkout")
    /\ ops[Len(ops)] = Op("checkout", FALSE)

\* The failure causes of the spec's list that the launcher has a stage for,
\* and the code each one ends a run with.
ListedCauses == {"config_unreadable", "fetch_failed", "descriptor_missing",
                 "host_not_found", "no_version", "repo", "env", "ep_missing",
                 "process_start"}

CodeOf(c) ==
    CASE c = "config_unreadable" -> ConfigCode
      [] c = "fetch_failed" -> FetchCode
      [] c = "descriptor_missing" -> FetchCode
      [] c = "host_not_found" -> HostCode
      [] c = "no_version" -> VersionCode
      [] c = "repo" -> RepoCode
      [] c = "env" -> EnvCode
      [] c = "ep_missing" -> EntryPointCode
      [] OTHER -> ProcessStartCode

DescriptorCauses == {"fetch_failed", "descriptor_missing"}

\* C2 as stated: every listed failure cause ends the run with a non-zero
\* exit code, and no other listed cause ends a run with that exit code.
C2_Original ==
    (pc = "done" /\ ~debug /\ cause \in ListedCauses) =>
       /\ exitCode # 0
       /\ \A c \in ListedCauses \ {cause} : SysExit(CodeOf(c)) # exitCode

\* C2 amended: in a normal run every listed failure cause ends the run with
\* its stage's non-zero exit code, and two different causes end with the
\* same code only when both are the descriptor being unavailable (download
\* failed without a cached copy, local file missing), which share one code.
C2_DistinctCodes ==
    (pc = "done" /\ ~debug /\ cause \in ListedCauses) =>
       /\ exitCode # 0
       /\ exitCode = SysExit(CodeOf(cause))
       /\ \A c \in ListedCauses \ {cause} :
             SysExit(CodeOf(c)) = exitCode => {c, cause} = DescriptorCauses

C2_Witness ==
    /\ pc = "done"
    /\ ~debug
    /\ cause = "host_not_found"
    /\ Did("select_host")

ValidConfig == cfg.present /\ cfg.repoUrl # None /\ cfg.xmlLoc # None

ThisRunsLog(dir) ==
    /\ subLog[dir][cfg.hostName].exists
    /\ subLog[dir][cfg.hostName].out = << runs >>

IsProvisioningOp(o) ==
    o.op \in {"clone", "fetch", "checkout", "find_uv", "venv_create", "pip_install",
              "open_log", "start"}

C4_MirrorsChild ==
    (pc = "done" /\ childCode # -1) => exitCode = childCode

C4_Witness ==
    /\ pc = "done"
    /\ childCode = 255
    /\ exitCode = 255

\* C5: when the entry point is missing at the environment path the process
\* runner tests, the run ends with the entry-point-missing code, which no
\* other failure uses, and the entry point is not started.
C5_EntryPointMissing ==
    [][ (pc = "check_ep" /\ ~envEP[version]) =>
           /\ pc' = "done"
           /\ exitCode' = SysExit(EntryPointCode)
           /\ \A c \in ListedCauses \ {"ep_missing"} : CodeOf(c) # EntryPointCode
           /\ \A i \in 1..Len(ops') : ops'[i].op # "start" ]_vars

C5_Witness ==
    /\ pc = "done"
    /\ cause = "ep_missing"
    /\ ~envEP[version]
    /\ Did("pip_install")
    /\ ~Did("start")

\* C6 as stated: when repository provisioning has succeeded, the working
\* tree is at the commit the requested version denotes in the remote.
C6_Original ==
    pc = "setup_venv" => head = RemoteDenotes(version)

\* C7: a provisioning call that follows a successful call with the same
\* version performs no clone, only fetch then checkout, and leaves the
\* working tree as the first call left it.
C7_Idempotent ==
    [][ (pc = "checkout" /\ pc' = "setup_venv" /\ lastRepo.version = version) =>
           /\ GitOpsOf(ops') = << "fetch", "checkout" >>
           /\ head' = lastRepo.tree ]_vars

C7_Witness ==
    /\ pc = "setup_venv"
    /\ lastRepo.again
    /\ lastRepo.version = version
    /\ GitOps = << "fetch", "checkout" >>
    /\ runs = 2

\* C8 as stated: once the entry point of a version exists, an environment
\* provisioning call for that version returns the environment and runs
\* neither environment creation nor install.
C8_Original ==
    [][ (pc = "setup_venv" /\ envEP[version]) =>
           /\ pc' = "check_ep" \/ (debug /\ pc' = "done" /\ exitCode' = 0)
           /\ \A i \in 1..Len(ops') : ops'[i].op \notin {"venv_create", "pip_install"} ]_vars

\* C9: when the location is a remote URL and the download fails, the
\* fetcher returns the cached copy's path if a cached copy exists and
\* fails only if none exists.
C9_CachedFallback ==
    (IsRemote(cfg.xmlLoc) /\ Failed("download")) =>
       /\ cacheXml # NoDoc => (xmlPath = "cache" /\ cause # "fetch_failed")
       /\ cacheXml = NoDoc => (xmlPath = None /\ pc = "done" /\ cause = "fetch_failed")

C9_Witness ==
    /\ IsRemote(cfg.xmlLoc)
    /\ Failed("download")
    /\ cacheXml # NoDoc
    /\ xmlPath = "cache"
    /\ pc = "select_host"

\* C10 as stated: a local descriptor path that does not exist makes the
\* fetcher return the cached copy when there is one.
C10_Original ==
    (cfg.xmlLoc = "path" /\ Failed("stat_local") /\ cacheXml # NoDoc) =>
       xmlPath = "cache"

\* C10 amended: a local descriptor path that does not exist makes the
\* fetcher fail without looking at the cache, whether or not a cached copy
\* exists.
C10_LocalMissingFails ==
    (cfg.xmlLoc = "path" /\ Failed("stat_local")) =>
       /\ xmlPath = None
       /\ pc = "done"
       /\ cause = "descriptor_missing"
       /\ ~Did("cache_fallback")

C10_Witness ==
    /\ cfg.xmlLoc = "path"
    /\ Failed("stat_local")
    /\ cacheXml # NoDoc
    /\ xmlPath = None
    /\ pc = "done"

\* The descriptor the run parsed.
ParsedDoc == ReadXml(xmlPath)

HostNamesOf(doc) == { doc[i].name : i \in 1..Len(doc) }

NoDuplicates(s) == \A i, j \in 1..Len(s) : s[i] = s[j] => i = j

\* C11 as stated: when the requested host name is absent from the
\* descriptor, host resolution fails and its message lists every host name
\* of the descriptor, each exactly once.
C11_Original ==
    (pc = "done" /\ Did("select_host") /\ ParsedDoc \notin {Malformed, NoDoc}
        /\ cfg.hostName \notin HostNamesOf(Doc(ParsedDoc))) =>
       /\ cause = "host_not_found"
       /\ Range(found_hosts(ParsedDoc, cfg.hostName)) = HostNamesOf(Doc(ParsedDoc))
       /\ NoDuplicates(found_hosts(ParsedDoc, cfg.hostName))

DirectMatches(doc, n) == { i \in 1..Len(doc) : doc[i].direct /\ doc[i].name = n }
AnyMatches(doc, n) == { i \in 1..Len(doc) : doc[i].name = n }

\* C12: host resolution returns the attributes of the first direct child of
\* the root, in document order, whose name is the requested host name; when
\* no direct child has that name, those of the first such element at any
\* depth; the record holds exactly the name and version of that element.
C12_FirstMatch ==
    (Did("select_host") /\ ParsedDoc \notin {Malformed, NoDoc}) =>
       LET doc == Doc(ParsedDoc)
           dm == DirectMatches(doc, cfg.hostName)
           am == AnyMatches(doc, cfg.hostName)
       IN  /\ dm # {} =>
                 hostEntry = << [name |-> doc[Min(dm)].name,
                                 version |-> doc[Min(dm)].version] >>
           /\ (dm = {} /\ am # {}) =>
                 hostEntry = << [name |-> doc[Min(am)].name,
                                 version |-> doc[Min(am)].version] >>
           /\ am = {} => hostEntry = << >>

\* the direct child "b" is chosen although a nested "b" comes first
C12_Witness ==
    /\ pc = "extract_version"
    /\ ParsedDoc = "d2"
    /\ cfg.hostName = "b"
    /\ hostEntry = << [name |-> "b", version |-> "v1"] >>

\* the ways a run ends with an exception nothing catches
UncaughtCauses == {"config_key_unset", "tool_not_found", "log_dir_unwritable",
                   "cache_unwritable", "args_unprintable"}

\* C13 as stated: no run ends with an uncaught exception; a run that fails
\* ends with the exit code of the stage that failed.
C13_Original ==
    (pc = "done" /\ cause # None) =>
       /\ cause \notin UncaughtCauses
       /\ cause \in ListedCauses => exitCode = SysExit(CodeOf(cause))

\* A descriptor satisfies the schema when it parses and every host element
\* carries a version attribute.
SchemaValid(d) ==
    /\ d \notin {Malformed, NoDoc}
    /\ \A i \in 1..Len(Doc(d)) : Doc(d)[i].version # None

\* C14 as stated: host resolution runs on a well-formed descriptor only when
\* it has been validated against the schema.  (The config dict of lines 61-67 holds no
\* schema location: a configured one changes nothing in a run.)
C14_Original ==
    (Did("select_host") /\ ParsedDoc \notin {Malformed, NoDoc}) => SchemaValid(ParsedDoc)

\* C15 as stated: with a config whose repoUrl or hostName is missing, the
\* run performs no descriptor fetch, no host resolution and no provisioning.
C15_Original ==
    (pc # "idle" /\ cfg.present /\ (cfg.repoUrl = None \/ cfg.hostName = None)) =>
       ops = << >>

\* No operation of the run failed and no directory creation raised.
AllOpsOk ==
    /\ \A i \in 1..Len(ops) : ops[i].ok
    /\ cause \notin UncaughtCauses

C19_DebugNoChild ==
    /\ [](debug =>
            /\ pc \notin {"check_ep", "run_child"}
            /\ ~Did("open_log") /\ ~Did("start")
            /\ childCode = -1
            /\ (pc = "done" /\ exitCode = 0) =>
                  /\ Op("checkout", TRUE) \in Range(ops)
                  /\ envEP[version] \/ Op("pip_install", TRUE) \in Range(ops))
    /\ [][debug => subLog' = subLog]_vars

C19_Witness ==
    /\ debug
    /\ pc = "done"
    /\ exitCode = 0
    /\ Op("pip_install", TRUE) \in Range(ops)
    /\ subLog["logs"][cfg.hostName] = NoLog

\* C20 as stated: a diagnostic run that has provisioned repository and
\* environment prints the argument vector a normal run with the same config
\* passes to the entry point.
C20_Original ==
    (debug /\ pc = "done" /\ cause \in {None, "args_unprintable"}) =>
       argv = ChildArgs(cfg, xmlPath, LogDir(cfg))

\* C16 as stated: when neither of two concurrent runs builds an
\* environment, the entry point of each executes the code of the version
\* that run checked out.
C16_Original ==
    (~Did("venv_create") /\ ~peer.built) =>
       /\ ran # 0 => ran = lastRepo.tree
       /\ peer.ran # 0 => peer.ran = peer.co

\* C16 amended: two concurrent runs that build no environment leave every
\* environment directory as it is, and the entry point of each executes the
\* code the shared working tree holds while it runs (the install is
\* editable): the version its own run checked out or the one the other run
\* checked out, and its own when the other run has not checked out.
C16_SharedTree ==
    /\ [][ (~Did("venv_create") /\ ~peer.built)' => envFiles' = envFiles ]_vars
    /\ [][ /\ (ran' # ran /\ ran' # 0) => ran' = head
           /\ peer'.ran # peer.ran => peer'.ran = head ]_vars
    /\ []( /\ ran # 0 =>
                /\ ran \in {lastRepo.tree, peer.co}
                /\ peer.co = 0 => ran = lastRepo.tree
           /\ peer.ran # 0 =>
                /\ peer.ran \in {peer.co, lastRepo.tree}
                /\ lastRepo = NoRepo => peer.ran = peer.co )

\* the first run's entry point executes what the second run checked out
C16_Witness ==
    /\ ran # 0
    /\ ~Did("venv_create") /\ ~peer.built
    /\ peer.version # version
    /\ ran = peer.co
    /\ ran # lastRepo.tree

\* C17: nothing keeps the second run's checkout from falling between the
\* first run's checkout and its install: every install builds the
\* environment from the working tree as it is at that moment, so the
\* environment the first run has installed comes from the commit the first
\* run checked out or from the one the second run checked out.
C17_InstallRace ==
    /\ [][ envSrc' # envSrc =>
              \E v \in VersionNames : envSrc' = [envSrc EXCEPT ![v] = head] ]_vars
    /\ []( Op("pip_install", TRUE) \in Range(ops) =>
              envSrc[version] \in {lastRepo.tree, peer.co} )

\* the first run has installed its environment from the version the second
\* run checked out in between
C17_Witness ==
    /\ Op("pip_install", TRUE) \in Range(ops)
    /\ peer.version # version
    /\ peer.pc = "setup_venv"
    /\ envSrc[version] = peer.co
    /\ envSrc[version] # lastRepo.tree

Last(q) == q[Len(q)]

\* C27 as stated: a per-host subprocess log on which some run has started
\* the entry point holds the output of the most recent such run and
\* nothing else.
C27_Original ==
    \A d \in LogDirs, h \in Hosts :
       subLog[d][h].starts # << >> => subLog[d][h].out = << Last(subLog[d][h].starts) >>

\* C27 amended: every run that opens the per-host subprocess log empties
\* it; the log holds the output of the most recent run that started the
\* entry point and nothing of earlier runs, or nothing at all when a later
\* run has opened the log and then failed to start the entry point.
C27_TruncatedPerRun ==
    \A d \in LogDirs, h \in Hosts :
       LET f == subLog[d][h]
       IN  /\ f.starts # << >> =>
                f.out = IF f.opened = Last(f.starts) THEN << f.opened >> ELSE << >>
           /\ f.starts = << >> => f.out = << >>
           /\ f.exists <=> f.opened # 0

\* two runs have started the entry point on the same log file and the file
\* holds the output of the second only
C27_Witness ==
    /\ pc = "done"
    /\ subLog["logs"]["a"].starts = << 1, 2 >>
    /\ subLog["logs"]["a"].out = << 2 >>

(* ---------------------------------------------------------------- C25 *)
\* C25: the configuration file is located by strict priority: the --config
\* value when one is given, otherwise the BIOBEAMER_LAUNCHER_CONFIG value
\* when one is set, otherwise the default path; a lower-priority source is
\* consulted only when every higher one is absent (unset or empty), and a
\* chosen file that does not exist is not replaced by a lower-priority one.
C25_ConfigPriority ==
    sysEnv.config_path # None =>
       LET a == sysEnv.args_config
           e == sysEnv.env_config
       IN  /\ Truthy(a) => sysEnv.config_path = a
           /\ (~Truthy(a) /\ Truthy(e)) => sysEnv.config_path = e
           /\ (~Truthy(a) /\ ~Truthy(e)) => sysEnv.config_path = DefaultConfigPath
           /\ sysEnv.config_read <=> sysEnv.config_path \in sysEnv.files

\* C25 witness: both overrides are given, only the lower-priority files
\* exist, and the command-line path was chosen and found missing.
C25_Witness ==
    /\ sysEnv.args_config = "cli.ini"
    /\ sysEnv.env_config = "env.ini"
    /\ sysEnv.files = {"env.ini", DefaultConfigPath}
    /\ sysEnv.config_path = "cli.ini"
    /\ ~sysEnv.config_read

(* ---------------------------------------------------------------- C30 *)
\* C30: the provisioning tool is resolved in strict order: UV_PATH when it
\* names an executable file, then the executable search path, then
\* scripts/uv, then scripts/uv.exe; a later source is used only when every
\* earlier one yields no usable executable, and the resolution fails only
\* when none does.
C30_ToolOrder ==
    sysEnv.uv_exe # None =>
       LET byEnv == Truthy(sysEnv.uv_env) /\ sysEnv.uv_env \in sysEnv.usable
           byPath == Truthy(sysEnv.uv_in_path)
       IN  /\ byEnv => sysEnv.uv_exe = sysEnv.uv_env
           /\ (~byEnv /\ byPath) => sysEnv.uv_exe = sysEnv.uv_in_path
           /\ sysEnv.uv_exe \in {UvScript, UvScriptWin} =>
                  ~byEnv /\ ~byPath /\ sysEnv.uv_exe \in sysEnv.usable
           /\ sysEnv.uv_exe = UvScriptWin => UvScript \notin sysEnv.usable
           /\ sysEnv.uv_exe = UvNotFound <=>
                  ~byEnv /\ ~byPath /\ sysEnv.usable \cap {UvScript, UvScriptWin} = {}

\* C30 witness: UV_PATH names a file that is not executable, uv is on the
\* search path and a bundled uv exists: the one on the search path is used.
C30_Witness ==
    /\ sysEnv.uv_env = "uvp"
    /\ sysEnv.usable = {UvScript}
    /\ sysEnv.uv_in_path = "/usr/bin/uv"
    /\ sysEnv.uv_exe = "/usr/bin/uv"

(* ---------------------------------------------------------------- C26 *)
\* C26: the launcher log file and the per-host subprocess log file of a run
\* are both under the configured log directory when one is configured and
\* under the cache directory otherwise, and that same directory is the
\* --log_dir argument passed to the entry point.
C26_OneLogDir ==
    LET dir == IF cfg.logDir = None THEN "cache" ELSE cfg.logDir
    IN  /\ logger.dir # None => logger.dir = dir
        /\ pc = "done" =>
              \A d \in LogDirs, h \in Hosts :
                 subLog[d][h].opened = runs => (d = dir /\ h = cfg.hostName)
        /\ (pc = "done" /\ ~debug /\ Did("start")) =>
              /\ argv[5] = "--log_dir" /\ argv[6] = dir
              /\ subLog[dir][cfg.hostName].opened = runs
              /\ logger.dir = dir

\* C26 witness: a normal run with a configured log directory, after an
\* earlier run that logged to the cache directory for the same host, has
\* started the entry point.
C26_Witness ==
    /\ pc = "done" /\ ~debug /\ Did("start")
    /\ cfg.logDir = "logs"
    /\ logger.dir = "logs"
    /\ subLog["logs"][cfg.hostName].opened = 2
    /\ subLog["cache"][cfg.hostName].opened = 1
    /\ argv[6] = "logs"

(* ---------------------------------------------------------------- C24 *)
\* C24 as stated: a normal run whose config leaves the descriptor key unset,
\* or names a local descriptor file that does not exist, prints the
\* configuration, then reports 'Could not fetch XML config file.', ends with
\* the descriptor-fetch failure code and runs no later stage.
C24_Original ==
    (/\ pc = "done" /\ ~debug
     /\ cause \in {"config_key_unset", "descriptor_missing"}
     /\ (cfg.xmlLoc = None \/ (cfg.xmlLoc = "path" /\ localXml = NoDoc))) =>
       /\ logger.msgs = << "config", "could_not_fetch" >>
       /\ exitCode = SysExit(FetchCode)
       /\ ~Did("select_host")

(* ---------------------------------------------------------------- C23 *)
\* What host resolution returns, and the exit code of the run, when the
\* descriptor is parsed and the host name is absent from it (host b in d3).
HostAbsentValue == parse_xml_and_select_host("d3", "b")
HostAbsentExit == SysExit(HostCode)

\* C23 as stated: for a descriptor that cannot be parsed, the value returned
\* by host resolution and the exit code of the run differ from those of a
\* run whose descriptor is parsed and lacks the host name.
C23_Original ==
    (pc = "done" /\ cause = "parse_error") =>
       /\ hostEntry # HostAbsentValue
       /\ exitCode # HostAbsentExit

(* ---------------------------------------------------------------- C29 *)
\* C29: when the clone exists and fetching the remote refs fails, no checkout
\* is attempted, the clone stays in place with its refs and its checked-out
\* commit unchanged, and the run ends with the repository-provisioning
\* failure code without building an environment or starting the entry
\* point, also when the environment of the requested version is built.
C29_FetchFailure ==
    /\ [](Failed("fetch") =>
            /\ pc = "done" /\ cause = "repo" /\ exitCode = SysExit(RepoCode)
            /\ cloneExists
            /\ ~Did("checkout") /\ ~Did("find_uv") /\ ~Did("venv_create")
            /\ ~Did("pip_install") /\ ~Did("open_log") /\ ~Did("start"))
    /\ [][(pc = "prepare_repo" /\ Failed("fetch")') => UNCHANGED gitLocal]_vars

\* C29 witness: the fetch failed in a run whose requested version has a
\* built environment, while the remote has commits the clone has not seen.
C29_Witness ==
    /\ pc = "done" /\ Failed("fetch")
    /\ version # None /\ envEP[version]
    /\ cloneExists /\ head # 0 /\ originRef # remoteBranch

(* ---------------------------------------------------------------- C28 *)
\* how often the run invoked the operation
Count(name) == Cardinality({ i \in 1..Len(ops) : ops[i].op = name })

\* C28: in every run each of clone, fetch, checkout, environment creation,
\* install and entry-point start is invoked at most once, and a run that
\* reached the process runner with an existing entry point and opened the
\* log file has invoked the start exactly once when it ends.
C28_NoRetry ==
    /\ \A name \in {"clone", "fetch", "checkout", "venv_create", "pip_install",
                     "open_log", "start"} : Count(name) <= 1
    /\ Count("clone") + Count("fetch") <= 1
    /\ (pc = "done" /\ Op("open_log", TRUE) \in Range(ops)) => Count("start") = 1

\* C28 witness: the run opened the log, the start of the entry point failed,
\* and the run ended with the process-start code after that single attempt.
C28_Witness ==
    /\ pc = "done" /\ cause = "process_start"
    /\ Op("open_log", TRUE) \in Range(ops)
    /\ Failed("start") /\ Count("start") = 1
    /\ exitCode = SysExit(ProcessStartCode)

(* ---------------------------------------------------------------- C21 *)
\* every invocation of operation b in the run comes after the operation a
Precedes(a, b) ==
    \A j \in 1..Len(ops) :
       ops[j].op = b => \E i \in 1..(j - 1) : ops[i] = a

\* C21: over any sequence of runs requesting any versions the one clone at
\* <cache>/BioBeamer is the only one created or used (once it exists no run
\* clones again and it is never removed), and in every run a successful
\* checkout of the run's requested version precedes any environment build
\* and any start of the entry point.
C21_OneCloneCheckoutFirst ==
    /\ [](\A b \in {"find_uv", "venv_create", "pip_install", "open_log", "start"} :
             Precedes(Op("checkout", TRUE), b))
    /\ []((Did("venv_create") \/ Did("pip_install") \/ Did("start")) =>
             (lastRepo.version = version /\ cloneExists))
    /\ [](Did("clone") => ~Did("fetch"))
    /\ [][cloneExists => (cloneExists' /\ (Len(ops') > Len(ops) => ops'[Len(ops')].op # "clone"))]_vars

\* C21 witness: the second run found the clone of the first, fetched,
\* checked out its version, built an environment and started the entry point.
C21_Witness ==
    /\ runs = 2 /\ pc = "done"
    /\ Did("fetch") /\ Did("venv_create") /\ Did("start")
    /\ Op("checkout", TRUE) \in Range(ops)

(* ---------------------------------------------------------------- C22 *)
\* C22: when an environment is built, the creation runs first and the
\* install runs only after a successful creation; the install links the
\* environment to the working tree of the clone; a failure of either step
\* ends the run with the environment failure code and the entry point is
\* not started.
C22_CreateThenInstall ==
    /\ [](Precedes(Op("venv_create", TRUE), "pip_install"))
    /\ [](Failed("venv_create") => ~Did("pip_install"))
    /\ []((Failed("venv_create") \/ Failed("pip_install")) =>
             /\ pc = "done" /\ cause = "env" /\ exitCode = SysExit(EnvCode)
             /\ ~Did("open_log") /\ ~Did("start"))
    /\ [][(pc = "pip_install" /\ Op("pip_install", TRUE) \in Range(ops')) =>
             envSrc'[version] = head']_vars

\* C22 witness: the creation succeeded, the install failed, and the run
\* ended with the environment failure code.
C22_Witness ==
    /\ pc = "done" /\ cause = "env"
    /\ ops[Len(ops) - 1] = Op("venv_create", TRUE)
    /\ ops[Len(ops)] = Op("pip_install", FALSE)
    /\ envDir[version] /\ ~envEP[version]

(* ---------------------------------------------------------------- C31 *)
\* C31: the cache directory resolver returns the value of the override
\* variable verbatim whenever it is set (and not empty), otherwise the
\* per-user cache path of platformdirs, otherwise the home-directory
\* fallback of the operating system; it always returns a path.
C31_CacheDirOrder ==
    sysEnv.cache_asked =>
       LET e == sysEnv.cache_env
           r == sysEnv.cache_dir
       IN  /\ Truthy(e) => r = << e >>
           /\ (~Truthy(e) /\ sysEnv.platformdirs) =>
                  (r[1] = "user_cache_dir" /\ r[2] = sysEnv.system)
           /\ (~Truthy(e) /\ ~sysEnv.platformdirs) =>
                  /\ r[Len(r)] = "BioBeamerConfig"
                  /\ r[1] = IF sysEnv.system = "Windows" /\ Truthy(sysEnv.local_appdata)
                            THEN sysEnv.local_appdata ELSE "~"
                  /\ (".cache" \in Range(r)) <=> sysEnv.system # "Windows"
           /\ r # << >>

\* C31 witness: the override variable is set while platformdirs is
\* importable and LOCALAPPDATA is set on Windows: the override is returned.
C31_Witness ==
    /\ sysEnv.cache_env = "/data/cache"
    /\ sysEnv.platformdirs
    /\ sysEnv.system = "Windows"
    /\ sysEnv.local_appdata = "C:/AppData"
    /\ sysEnv.cache_asked
    /\ sysEnv.cache_dir = << "/data/cache" >>

(* ---------------------------------------------------------------- C32 *)
\* C32 as stated: a fetch whose download succeeded leaves the downloaded
\* content in the cached descriptor file, and any other fetch leaves the
\* cached file as it was.
C32_Original ==
    [][pc = "fetch_xml" =>
         /\ Op("download", TRUE) \in Range(ops') => cacheXml' = tmpXml'
         /\ Op("download", TRUE) \notin Range(ops') => cacheXml' = cacheXml]_vars

\* C32 amended: a fetch whose cache copy completed leaves the downloaded
\* content in the cached descriptor file; a fetch whose cache copy failed
\* leaves the file as it was or partly written; failed downloads,
\* local-path fetches and all other stages leave it unchanged; the cached
\* file is never deleted, and a fetch writes no file but the temporary
\* download and the cache copy.
C32_CacheHoldsLastCopy ==
    /\ [][pc = "fetch_xml" =>
            /\ Op("cache_copy", TRUE) \in Range(ops') =>
                   (cacheXml' = tmpXml' /\ tmpXml' # NoDoc)
            /\ Op("cache_copy", FALSE) \in Range(ops') =>
                   cacheXml' \in {cacheXml, Malformed}
            /\ ~(\E ok \in BOOLEAN : Op("cache_copy", ok) \in Range(ops')) =>
                   cacheXml' = cacheXml
            /\ ~(\E ok \in BOOLEAN : Op("download", ok) \in Range(ops')) =>
                   tmpXml' = tmpXml
            /\ cacheXml # NoDoc => cacheXml' # NoDoc]_vars
    /\ [][pc # "fetch_xml" => cacheXml' = cacheXml]_vars

\* C32 witness: the download succeeded, the cache copy failed part-way and
\* the cached file holds neither the fresh descriptor nor nothing.
C32_Witness ==
    /\ Op("download", TRUE) \in Range(ops)
    /\ Op("cache_copy", FALSE) \in Range(ops)
    /\ tmpXml \notin {NoDoc, Malformed}
    /\ cacheXml = Malformed

(* ---------------------------------------------------------------- C36 *)
\* C36 as stated: when the remote download of the descriptor succeeded, the
\* fetcher returns the path of the downloaded file, also when the cache
\* copy failed.
C36_Original ==
    (pc # "idle" /\ Op("download", TRUE) \in Range(ops)) => xmlPath = "tmp"

(* ---------------------------------------------------------------- C33 *)
\* C33 as stated: when the entry point of the requested version exists,
\* environment provisioning succeeds and the entry point is run, also when
\* the provisioning tool cannot be located.
C33_Original ==
    (pc = "done" /\ ~debug /\ Failed("find_uv") /\ envEP[version]) =>
       (cause # "tool_not_found" /\ Did("start"))

(* ---------------------------------------------------------------- C34 *)
\* the codes run_launcher, run_biobeamer_process and main return for their
\* own failures
LauncherStageCodes == {11, 13, 14, 20, 23, 24, 25, 30}

\* C34 as stated: a normal run ends with one of the launcher's stage codes
\* only when a launcher stage failed, never after the entry point has run
\* to completion.
C34_Original ==
    (pc = "done" /\ ~debug /\ exitCode \in LauncherStageCodes) =>
       (cause # None /\ Op("start", TRUE) \notin Range(ops))

(* ---------------------------------------------------------------- C35 *)
\* C35 as stated: the configured credential does not occur in the launcher's
\* log messages.
C35_Original ==
    cfg.present => cfg.password \notin logger.shown

(* ---------------------------------------------------------------- C37 *)
\* the causes of a run that ended before run_biobeamer_process built the
\* command
EarlyCauses == {"config_unreadable", "fetch_failed", "descriptor_missing",
                "host_not_found", "parse_error", "no_version", "repo", "env",
                "ep_missing"}

\* C37: a run that fails at the config, descriptor, host, version,
\* repository, environment or entry-point-missing stage leaves every
\* per-host subprocess log as it was; a log is created or truncated only by
\* a run that reached the start of an existing entry point.
C37_LogUntouched ==
    /\ [][subLog' # subLog =>
            /\ pc = "run_child" /\ envEP[version]
            /\ Op("open_log", TRUE) \in Range(ops')]_vars
    /\ []((pc = "done" /\ cause \in EarlyCauses) =>
            \A d \in LogDirs, h \in Hosts : subLog[d][h].opened # runs)
    /\ [][(pc' = "done" /\ cause' \in EarlyCauses) => subLog' = subLog]_vars

\* C37 witness: the second run ended with the entry point missing while the
\* log of its host and log directory still holds the output of the first.
C37_Witness ==
    /\ runs = 2 /\ pc = "done" /\ cause = "ep_missing"
    /\ subLog[LogDir(cfg)][cfg.hostName].out = << 1 >>

(* ---------------------------------------------------------------- C38 *)
\* run_launcher, lines 418-429, and run_biobeamer_process, lines 372-374:
\* the code a normal run returns for the failure cause
RunLauncherCode(c) ==
    CASE c \in {"fetch_failed", "descriptor_missing"} -> 20
      [] c \in {"host_not_found", "parse_error"} -> 23
      [] c = "no_version" -> 24
      [] c = "repo" -> 25
      [] c = "env" -> 13

\* C38 as stated: a --debug run that ends for one of the causes descriptor
\* unavailable, host not found, no version, repository failure, environment
\* failure has the exit code of a normal run ending for that cause.
C38_Original ==
    (pc = "done" /\ debug /\ cause \in {"fetch_failed", "descriptor_missing",
                                         "host_not_found", "parse_error",
                                         "no_version", "repo", "env"}) =>
       exitCode = SysExit(RunLauncherCode(cause))

(* ---------------------------------------------------------------- C39 *)
\* the position of a stage in the pipeline
PcRank(p) ==
    CASE p = "idle" -> 0
      [] p = "fetch_xml" -> 1
      [] p = "select_host" -> 2
      [] p = "extract_version" -> 3
      [] p = "prepare_repo" -> 4
      [] p = "checkout" -> 5
      [] p = "setup_venv" -> 6
      [] p = "pip_install" -> 7
      [] p = "check_ep" -> 8
      [] p = "run_child" -> 9
      [] OTHER -> 10

\* C39: when every external call returns, every started run ends with an
\* exit code; each step of a run moves it to a later stage of the pipeline,
\* so no stage is revisited and a run takes at most ten steps, in which it
\* performs at most twelve external operations.
C39_Terminates ==
    /\ (pc \notin {"idle", "done"}) ~> (pc = "done")
    /\ [](pc = "done" => exitCode \in 0..255)
    /\ [][pc' # "idle" => PcRank(pc') > PcRank(pc)]_vars
    /\ [](Len(ops) <= 12)

\* C39 witness: a run went through every stage from an empty cache and
\* ended with the exit code of the child.
C39_Witness ==
    /\ pc = "done" /\ ~debug /\ exitCode = 0
    /\ Did("download") /\ Did("clone") /\ Did("checkout")
    /\ Did("venv_create") /\ Did("pip_install")
    /\ Op("start", TRUE) \in Range(ops)
====
